---- MODULE Spec2Model ----
(***************************************************************************)
(* Model of src/server.js: an Express application that relays three        *)
(* payment operations to the Paystack API, receives Paystack webhooks,     *)
(* and serves a callback redirect, a health probe and the frontend.        *)
(*                                                                         *)
(* JavaScript values are records tagged by their type, so that values of   *)
(* different types can be compared.  Numbers are IEEE-754 doubles: a       *)
(* 53-bit significand (most significant bit first) and a binary exponent.  *)
(***************************************************************************)
EXTENDS Integers, Sequences, FiniteSets, Bags, TLC

\* ------------------------------------------------------------------------
\* Bounds of the model
\* ------------------------------------------------------------------------

\* Proxy requests that may be awaiting the processor at the same time.
MaxInFlight == 2

\* Lines the webhook's handlers may write to the console.
MaxStdout == 2

\* ------------------------------------------------------------------------
\* JavaScript values
\* ------------------------------------------------------------------------

Undefined == [t |-> "undefined"]

Null == [t |-> "null"]

Bool(b) == [t |-> "boolean", b |-> b]

Str(s) == [t |-> "string", s |-> s]

\* An object: its properties in insertion order, each <<name, value>>.
Obj(props) == [t |-> "object", props |-> props]

NaN == [t |-> "number", nan |-> TRUE]

\* A number literal as it is written in a request: n / 10^k.
Dec(n, k) == [t |-> "literal", n |-> n, k |-> k]

\* Bits of a natural number, most significant first (<<>> for 0).
RECURSIVE Bits(_)
Bits(n) == IF n = 0 THEN <<>> ELSE Append(Bits(n \div 2), n % 2)

Zeros(k) == [i \in 1..k |-> 0]

RECURSIVE Pow10(_)
Pow10(k) == IF k = 0 THEN 1 ELSE 10 * Pow10(k - 1)

\* b without its leading zero bits.
StripZeros(b) ==
  LET ones == {i \in 1..Len(b) : b[i] = 1}
  IN  IF ones = {} THEN <<>>
      ELSE SubSeq(b, CHOOSE i \in ones : \A j \in ones : i <= j, Len(b))

\* The value of a bit string of fewer than 31 bits.
RECURSIVE BitsValue(_)
BitsValue(b) ==
  IF b = <<>> THEN 0 ELSE 2 * BitsValue(SubSeq(b, 1, Len(b) - 1)) + b[Len(b)]

RECURSIVE Pow2(_)
Pow2(k) == IF k = 0 THEN 1 ELSE 2 * Pow2(k - 1)

\* The k-bit string of value n < 2^k.
FixedBits(n, k) == Zeros(k - Len(Bits(n))) \o Bits(n)

\* Bit strings longer than a 16-bit word are halved, and each word is
\* computed with integer arithmetic (its intermediate values stay below 2^31).
WordBits == 2 * 8

\* b * c + carry for a bit string b and small naturals c and carry, as
\* Len(b) bits and the carry out of them; the low half is computed first.
RECURSIVE MulStep(_, _, _)
MulStep(b, c, carry) ==
  IF Len(b) <= WordBits
  THEN LET v == BitsValue(b) * c + carry
       IN  [bits |-> FixedBits(v % Pow2(Len(b)), Len(b)), carry |-> v \div Pow2(Len(b))]
  ELSE LET h  == Len(b) \div 2
           lo == MulStep(SubSeq(b, h + 1, Len(b)), c, carry)
           hi == MulStep(SubSeq(b, 1, h), c, lo.carry)
       IN  [bits |-> hi.bits \o lo.bits, carry |-> hi.carry]

\* b * c for a bit string b and a small natural c.
MulSmall(b, c) ==
  LET r == MulStep(b, c, 0) IN Bits(r.carry) \o r.bits

\* Long division of the bit string b by a small d, with rem < d the
\* remainder carried in: Len(b) bits of quotient and the final remainder.
RECURSIVE DivSmall(_, _, _)
DivSmall(b, d, rem) ==
  IF Len(b) <= WordBits
  THEN LET v == rem * Pow2(Len(b)) + BitsValue(b)
       IN  [q |-> FixedBits(v \div d, Len(b)), r |-> v % d]
  ELSE LET h  == Len(b) \div 2
           hi == DivSmall(SubSeq(b, 1, h), d, rem)
           lo == DivSmall(SubSeq(b, h + 1, Len(b)), d, hi.r)
       IN  [q |-> hi.q \o lo.q, r |-> lo.r]

\* b + 1.
Increment(b) ==
  LET zeros == {i \in 1..Len(b) : b[i] = 0}
  IN  IF zeros = {} THEN <<1>> \o Zeros(Len(b))
      ELSE LET z == CHOOSE i \in zeros : \A j \in zeros : j <= i
           IN  SubSeq(b, 1, z - 1) \o <<1>> \o Zeros(Len(b) - z)

\* Width of a double's significand, and of the low word it is kept in: a
\* number is [m |-> <<high 27 bits, low 26 bits>>, e |-> exponent], of value
\* (m[1] * 2^26 + m[2]) * 2^e, with m[1] >= 2^26 unless the number is 0.
SignificandBits == 53

LowBits == SignificandBits \div 2

Pack(b) ==
  <<BitsValue(SubSeq(b, 1, SignificandBits - LowBits)),
    BitsValue(SubSeq(b, SignificandBits - LowBits + 1, SignificandBits))>>

Unpack(m) ==
  LET hi == Bits(m[1])
      lo == Bits(m[2])
  IN  Zeros(SignificandBits - LowBits - Len(hi)) \o hi \o Zeros(LowBits - Len(lo)) \o lo

\* The double nearest to b * 2^e (round to nearest, ties to even); sticky
\* says that bits below b were already discarded and were not all zero.
RoundToDouble(b0, e, sticky) ==
  LET b == StripZeros(b0)
  IN  IF b = <<>> THEN [t |-> "number", m |-> <<0, 0>>, e |-> 0]
      ELSE IF Len(b) <= SignificandBits
      THEN [t |-> "number", m |-> Pack(b \o Zeros(SignificandBits - Len(b))),
            e |-> e - (SignificandBits - Len(b))]
      ELSE LET keep  == SubSeq(b, 1, SignificandBits)
               guard == b[SignificandBits + 1]
               below == \E i \in (SignificandBits + 2)..Len(b) : b[i] = 1
               up    == guard = 1 /\ (below \/ sticky \/ keep[SignificandBits] = 1)
               r     == IF up THEN Increment(keep) ELSE keep
               drop  == Len(b) - SignificandBits
           IN  IF Len(r) > SignificandBits
               THEN [t |-> "number", m |-> Pack(SubSeq(r, 1, SignificandBits)),
                     e |-> e + drop + 1]
               ELSE [t |-> "number", m |-> Pack(r), e |-> e + drop]

\* The double of a natural number.
Num(n) == RoundToDouble(Bits(n), 0, FALSE)

\* JSON.parse / ToNumber of the decimal literal n / 10^k: the quotient is
\* carried to more bits than a significand holds, then rounded once.
ParseNumber(lit) ==
  LET shift == SignificandBits + 2 + Len(Bits(Pow10(lit.k)))
      d     == DivSmall(Bits(lit.n) \o Zeros(shift), Pow10(lit.k), 0)
  IN  RoundToDouble(d.q, 0 - shift, d.r # 0)

\* x * c where c is a small natural (exact as a double, so the exact product
\* is rounded once); NaN * c is NaN.
Times(x, c) ==
  IF x = NaN THEN NaN ELSE RoundToDouble(MulSmall(Unpack(x.m), c), x.e, FALSE)

\* ToNumber of a string, for the strings requests carry as amounts.
StringToNumber(s) ==
  CASE s = ""    -> Num(0)
    [] s = "0"   -> Num(0)
    [] s = "250" -> Num(250)
    [] OTHER     -> NaN

\* ToNumber, applied by the * operator to its operands.
ToNumber(v) ==
  CASE v.t = "number"  -> v
    [] v.t = "string"  -> StringToNumber(v.s)
    [] v.t = "null"    -> Num(0)
    [] v.t = "boolean" -> IF v.b THEN Num(1) ELSE Num(0)
    [] OTHER           -> NaN

\* ToBoolean, applied by !, || and if.
Truthy(v) ==
  CASE v.t = "undefined" -> FALSE
    [] v.t = "null"      -> FALSE
    [] v.t = "boolean"   -> v.b
    [] v.t = "string"    -> v.s # ""
    [] v.t = "number"    -> v # NaN /\ v # Num(0)
    [] OTHER             -> TRUE

\* a || b
Or(a, b) == IF Truthy(a) THEN a ELSE b

\* The default of a destructuring pattern: { x = d } = ...
Default(v, d) == IF v = Undefined THEN d ELSE v

\* v[name] of a value that is neither null nor undefined: an own property of
\* an object, undefined on a string (for the names the handlers read).
Get(v, name) ==
  IF v.t = "object" /\ \E i \in 1..Len(v.props) : v.props[i][1] = name
  THEN v.props[CHOOSE i \in 1..Len(v.props) : v.props[i][1] = name][2]
  ELSE Undefined

\* v?.name
OptGet(v, name) == IF v \in {Undefined, Null} THEN Undefined ELSE Get(v, name)

\* The integer an integer-valued double below 2^31 stands for.
IntegerOf(d) == BitsValue(SubSeq(Unpack(d.m), 1, SignificandBits + d.e))

\* A value inside a template literal: undefined reads "undefined", and the
\* numbers the handlers render are their integer defaults.
Template(v) ==
  CASE v.t = "undefined" -> "undefined"
    [] v.t = "number"    -> ToString(IntegerOf(v))
    [] OTHER             -> v.s

\* The body res.json sends: JSON.stringify leaves out undefined properties.
Json(props) == Obj(SelectSeq(props, LAMBDA p : p[2] # Undefined))

\* ------------------------------------------------------------------------
\* JSON text of a webhook body, as the lexical tokens of its bytes: a flat
\* object of string members, with insignificant whitespace between tokens.
\* ------------------------------------------------------------------------

Punct(c) == [lex |-> "punct", c |-> c]

Space == [lex |-> "space"]

Quoted(s) == [lex |-> "string", s |-> s]

\* JSON.parse, as express.json() applies it to the body: whitespace between
\* tokens is dropped and the members become properties.
JsonParse(raw) ==
  LET toks == SelectSeq(raw, LAMBDA k : k # Space)
      n    == (Len(toks) - 1) \div 4
  IN  Obj([i \in 1..n |-> <<toks[4 * i - 2].s, Str(toks[4 * i].s)>>])

\* JSON.stringify of such an object: no whitespace, properties in order.
RECURSIVE Members(_)
Members(props) ==
  IF props = <<>> THEN <<>>
  ELSE <<Quoted(props[1][1]), Punct(":"), Quoted(props[1][2].s)>>
       \o (IF Len(props) = 1 THEN <<>> ELSE <<Punct(",")>>)
       \o Members(Tail(props))

JsonStringify(v) == <<Punct("{")>> \o Members(v.props) \o <<Punct("}")>>

\* crypto.createHmac('sha256', key).update(msg).digest('hex'): the digest
\* is determined by the key and the bytes, and distinct inputs are taken to
\* give distinct digests.
HmacSha256Hex(key, msg) == [t |-> "string", hmac |-> [key |-> key, msg |-> msg]]

\* ------------------------------------------------------------------------
\* State
\* ------------------------------------------------------------------------

VARIABLES
  env,       \* process.env.PAYSTACK_SECRET_KEY
  pc,        \* how far the start-up script has run
  secretKey, \* the constant PAYSTACK_SECRET_KEY of line 36
  routes,    \* the routes registered on the app
  stderr,    \* the start-up diagnostic written with console.error
  inflight,  \* proxy exchanges awaiting the processor (a bag)
  last,      \* the exchange that was answered last
  stdout     \* the lines the webhook's handlers wrote with console.log

vars == <<env, pc, secretKey, routes, stderr, inflight, last, stdout>>

\* No exchange answered yet.
None == [kind |-> "none"]

\* An exchange: the request, the outbound calls issued for it, how many of
\* them have settled and with what, the responses sent, the webhook handlers
\* reached and what the handler wrote with console.error.
Exchange(kind, req) ==
  [kind |-> kind, req |-> req, calls |-> <<>>, settled |-> 0, reply |-> None,
   responses |-> <<>>, reached |-> <<>>, logged |-> <<>>]

Respond(x, status, body) ==
  [x EXCEPT !.responses = Append(@, [status |-> status, body |-> body])]

\* ------------------------------------------------------------------------
\* Start-up (the module's top-level statements, in order)
\* ------------------------------------------------------------------------

\* The values the environment may give PAYSTACK_SECRET_KEY.
SecretValues == {Undefined, Str(""), Str("sk_test_1")}

AllRoutes ==
  {"POST /api/initialize-payment", "GET /api/verify-payment/:reference",
   "GET /api/transactions", "POST /api/webhook", "GET /payment-callback",
   "GET /api/health", "GET /"}

Init ==
  /\ env \in SecretValues
  /\ pc = "start"
  /\ secretKey = Undefined
  /\ routes = {}
  /\ stderr = <<>>
  /\ inflight = EmptyBag
  /\ last = None
  /\ stdout = <<>>

\* Lines 3-28: the app is created and its middleware installed.
Configure ==
  /\ pc = "start"
  /\ pc' = "configured"
  /\ UNCHANGED <<env, secretKey, routes, stderr, inflight, last, stdout>>

\* A faulty variant of CheckSecret that tests the secret with === undefined:
\* an empty secret passes, and the server starts without one.
CheckSecretUndefinedOnly ==
  /\ pc = "configured"
  /\ secretKey' = env
  /\ IF env = Undefined
     THEN /\ stderr' = Append(stderr, "PAYSTACK_SECRET_KEY is required")
          /\ pc' = "exited"
     ELSE /\ pc' = "checked"
          /\ UNCHANGED stderr
  /\ UNCHANGED <<env, routes, inflight, last, stdout>>

\* Lines 36-41: the secret is read; without it the process exits at once.
CheckSecret ==
  /\ pc = "configured"
  /\ secretKey' = env
  /\ IF ~Truthy(env)
     THEN /\ stderr' = Append(stderr, "PAYSTACK_SECRET_KEY is required")
          /\ pc' = "exited"
     ELSE /\ pc' = "checked"
          /\ UNCHANGED stderr
  /\ UNCHANGED <<env, routes, inflight, last, stdout>>

\* Lines 44-202: the seven routes are registered.
RegisterRoutes ==
  /\ pc = "checked"
  /\ routes' = AllRoutes
  /\ pc' = "routed"
  /\ UNCHANGED <<env, secretKey, stderr, inflight, last, stdout>>

\* Line 204: the server starts to listen.
Listen ==
  /\ pc = "routed"
  /\ pc' = "listening"
  /\ UNCHANGED <<env, secretKey, routes, stderr, inflight, last, stdout>>

Startup == Configure \/ CheckSecret \/ RegisterRoutes \/ Listen

\* A request is served when the server listens and its route exists.
Serving(route) == pc = "listening" /\ route \in routes

\* ------------------------------------------------------------------------
\* POST /api/webhook (lines 159-186)
\* ------------------------------------------------------------------------

SuccessBody ==
  <<Punct("{"), Quoted("event"), Punct(":"), Quoted("charge.success"), Punct(","),
    Quoted("data"), Punct(":"), Quoted("trx_1"), Punct("}")>>

\* The same event as the sender's serializer may write it, with a space
\* after each colon and comma.
SpacedBody ==
  <<Punct("{"), Quoted("event"), Punct(":"), Space, Quoted("charge.success"),
    Punct(","), Space, Quoted("data"), Punct(":"), Space, Quoted("trx_1"), Punct("}")>>

FailedBody ==
  <<Punct("{"), Quoted("event"), Punct(":"), Quoted("charge.failed"), Punct(","),
    Quoted("data"), Punct(":"), Quoted("trx_2"), Punct("}")>>

UnknownBody ==
  <<Punct("{"), Quoted("event"), Punct(":"), Quoted("totally.unknown"), Punct(","),
    Quoted("data"), Punct(":"), Quoted("trx_3"), Punct("}")>>

NoEventBody ==
  <<Punct("{"), Quoted("data"), Punct(":"), Quoted("trx_4"), Punct("}")>>

RawBodies == {SuccessBody, SpacedBody, FailedBody, UnknownBody, NoEventBody}

\* What a delivery may carry in x-paystack-signature: nothing, the sender's
\* signature of the bytes sent, a signature of the re-serialized body, or a
\* signature made with another key.
Signatures(raw) ==
  {Undefined,
   HmacSha256Hex(env, raw),
   HmacSha256Hex(env, JsonStringify(JsonParse(raw))),
   HmacSha256Hex(Str("sk_forged"), raw)}

\* Lines 161-166: the digest the handler compares the header with.
WebhookHash(body) == HmacSha256Hex(env, JsonStringify(body))

\* A faulty variant of SignatureAccepted that verifies only a header that is
\* present.
SignatureAcceptedWhenAbsent(hash, header) == header = Undefined \/ hash = header

\* Line 166.
SignatureAccepted(hash, header) == hash = header

\* A faulty variant of Dispatch whose switch has no case for charge.failed.
DispatchWithoutFailedCase(event) ==
  LET tag == Get(event, "event")
  IN  CASE tag = Str("charge.success") ->
             [handler |-> "charge.success",
              line |-> <<"Payment successful:", Get(event, "data")>>]
        [] OTHER ->
             [handler |-> "default", line |-> <<"Unhandled event:", tag>>]

\* Lines 169-180: the switch on event.event; each branch writes one line.
Dispatch(event) ==
  LET tag == Get(event, "event")
  IN  CASE tag = Str("charge.success") ->
             [handler |-> "charge.success",
              line |-> <<"Payment successful:", Get(event, "data")>>]
        [] tag = Str("charge.failed") ->
             [handler |-> "charge.failed",
              line |-> <<"Payment failed:", Get(event, "data")>>]
        [] OTHER ->
             [handler |-> "default", line |-> <<"Unhandled event:", tag>>]

Webhook(raw, signature) ==
  LET body == JsonParse(raw)
      x    == Exchange("webhook", [raw |-> raw, signature |-> signature])
      d    == Dispatch(body)
  IN  /\ Serving("POST /api/webhook")
      /\ IF SignatureAccepted(WebhookHash(body), signature)
         THEN /\ Len(stdout) < MaxStdout
              /\ stdout' = Append(stdout, d.line)
              /\ last' = Respond([x EXCEPT !.reached = <<d.handler>>],
                                 200, Str("Webhook received"))
         ELSE /\ last' = Respond(x, 400, Str("Invalid signature"))
              /\ UNCHANGED stdout
      /\ UNCHANGED <<env, pc, secretKey, routes, stderr, inflight>>

WebhookNext ==
  \/ Startup
  \/ \E raw \in RawBodies : \E signature \in Signatures(raw) : Webhook(raw, signature)

\* The server as the processor's webhook deliveries drive it.
SpecWebhook == Init /\ [][WebhookNext]_vars

\* ------------------------------------------------------------------------
\* The processor, as axios reports it
\* ------------------------------------------------------------------------

\* A 2xx response whose body is the processor's envelope.
Envelope ==
  Obj(<< <<"status", Bool(TRUE)>>, <<"message", Str("Successful")>>,
         <<"data", Obj(<< <<"reference", Str("abc123")>> >>)>>,
         <<"meta", Obj(<< <<"total", Str("1")>> >>)>> >>)

\* The promise resolves with a response whose data is the parsed body, or
\* the body's text when it is no JSON.
Resolved(data) == [t |-> "resolved", response |-> Obj(<< <<"data", data>> >>)]

Rejected(error) == [t |-> "rejected", error |-> error]

\* No response at all.
NetworkError == Obj(<< <<"message", Str("connect ECONNREFUSED")>> >>)

\* A non-2xx response that carries the processor's own message.
Http401 ==
  Obj(<< <<"message", Str("Request failed with status code 401")>>,
         <<"response",
           Obj(<< <<"data", Obj(<< <<"status", Bool(FALSE)>>,
                                   <<"message", Str("Invalid key")>> >>)>> >>)>> >>)

\* A non-2xx response that carries none.
Http502 ==
  Obj(<< <<"message", Str("Request failed with status code 502")>>,
         <<"response", Obj(<< <<"data", Str("<html>Bad Gateway</html>")>> >>)>> >>)

Outcomes ==
  {Resolved(Envelope), Resolved(Str("<html>Maintenance</html>")), Resolved(Null),
   Rejected(NetworkError), Rejected(Http401), Rejected(Http502)}

\* Reading a property of null or undefined throws a TypeError.
TypeError(name) ==
  Obj(<< <<"message", Str("Cannot read properties of null (reading '" \o name \o "')")>> >>)

\* What the try block ends with once the awaited call has settled: the
\* rejection, the TypeError of response.data.data, or nothing thrown.
Thrown(outcome) ==
  IF outcome.t = "rejected" THEN outcome.error
  ELSE IF Get(outcome.response, "data") \in {Null, Undefined} THEN TypeError("data")
  ELSE Undefined

\* The catch block of a proxy handler (lines 80-90, 112-122, 145-155).
Failure(x, error, prefix, message) ==
  LET data == OptGet(Get(error, "response"), "data")
      y    == [x EXCEPT !.logged = Append(@, <<prefix, Or(data, Get(error, "message"))>>)]
  IN  Respond(y, 500,
              Json(<< <<"status", Bool(FALSE)>>, <<"message", Str(message)>>,
                      <<"error", Or(OptGet(data, "message"), Get(error, "message"))>> >>))

\* The call of an exchange awaiting the processor settles with outcome.
Settle(x, outcome) == [x EXCEPT !.settled = @ + 1, !.reply = outcome]

Authorization == "Bearer " \o secretKey.s

Call(method, url, data) ==
  [method |-> method, url |-> url, data |-> data, authorization |-> Authorization]

\* A faulty variant of Await that issues the call and answers at once,
\* without awaiting it.
AnswerWithoutAwaiting(x, call) ==
  /\ last' = Respond([x EXCEPT !.calls = Append(@, call)], 200,
                     Json(<< <<"status", Bool(TRUE)>> >>))
  /\ UNCHANGED inflight

\* The handler issues its call and awaits it.
Await(x, call) ==
  /\ BagCardinality(inflight) < MaxInFlight
  /\ inflight' = inflight (+) SetToBag({[x EXCEPT !.calls = Append(@, call)]})
  /\ UNCHANGED last

\* The awaited call has settled and the handler has answered.
Answer(x, y) ==
  /\ inflight' = inflight (-) SetToBag({x})
  /\ last' = y

Awaiting(kind) == {x \in BagToSet(inflight) : x.kind = kind}

\* ------------------------------------------------------------------------
\* POST /api/initialize-payment (lines 44-91)
\* ------------------------------------------------------------------------

Emails == {Undefined, Str(""), Str("ada@example.com")}

\* Amounts as requests carry them: absent, a JSON number, or a string (a
\* JSON string, or any field of a urlencoded form).
AmountInputs == {Undefined, Str(""), Str("0"), Dec(0, 0), Dec(5, 0), Dec(115, 2)}

References == {Undefined, Str("abc123")}

\* Date.now() as the text of its milliseconds and as toISOString gives it.
Clock ==
  {[millis |-> "1730710000000", iso |-> "2024-11-04T08:46:40.000Z"],
   [millis |-> "1730710000001", iso |-> "2024-11-04T08:46:40.001Z"]}

\* Math.random().toString(36).substr(2, 9)
RandomSuffixes == {"k3x9q2m1z"}

InitializeRequests ==
  [email : Emails, amount : AmountInputs, reference : References,
   protocol : {"http"}, host : {"localhost:3000"}]

\* express.json() gives the handler the parsed body: a number literal has
\* become a double.
BodyValue(v) == IF v.t = "literal" THEN ParseNumber(v) ELSE v

\* (f @@ g is g where f is the empty function; it makes the table's
\* entries be evaluated once.)
BodyOf ==
  <<>> @@ [r \in InitializeRequests |->
             [email |-> r.email, amount |-> BodyValue(r.amount),
              reference |-> r.reference, currency |-> Undefined]]

\* A faulty variant of Invalid that rejects only when both are missing.
InvalidWhenBothMissing(email, amount) == ~Truthy(email) /\ ~Truthy(amount)

\* Line 48.
Invalid(email, amount) == ~Truthy(email) \/ ~Truthy(amount)

\* Line 57: amount * 100.
ToKobo(amount) == Times(ToNumber(amount), 100)

\* ToKobo of the amounts the bodies carry, evaluated once.
KoboOf == <<>> @@ [a \in {BodyValue(v) : v \in AmountInputs} |-> ToKobo(a)]

\* Lines 55-63.
PaymentData(r, body, now, rnd) ==
  [email        |-> body.email,
   amount       |-> KoboOf[body.amount],
   currency     |-> Default(body.currency, Str("NGN")),
   reference    |-> Or(body.reference, Str("ref_" \o now.millis \o "_" \o rnd)),
   callback_url |-> Str(r.protocol \o "://" \o r.host \o "/payment-callback")]

\* Lines 45-74: up to the await.
InitializePayment(r) ==
  LET body == BodyOf[r]
      x    == Exchange("initialize", r)
  IN  /\ Serving("POST /api/initialize-payment")
      /\ IF Invalid(body.email, body.amount)
         THEN /\ last' = Respond(x, 400,
                           Json(<< <<"status", Bool(FALSE)>>,
                                   <<"message", Str("Email and amount are required")>> >>))
              /\ UNCHANGED inflight
         ELSE \E now \in Clock, rnd \in RandomSuffixes :
                Await(x, Call("POST", "https://api.paystack.co/transaction/initialize",
                              PaymentData(r, body, now, rnd)))
      /\ UNCHANGED <<env, pc, secretKey, routes, stderr, stdout>>

\* Lines 76-90: after the await.
InitializeSettles(x, outcome) ==
  LET y == Settle(x, outcome)
      e == Thrown(outcome)
  IN  /\ Answer(x, IF e = Undefined
                   THEN Respond(y, 200,
                          Json(<< <<"status", Bool(TRUE)>>,
                                  <<"data", Get(Get(outcome.response, "data"), "data")>> >>))
                   ELSE Failure(y, e, "Initialize payment error:",
                                "Failed to initialize payment"))
      /\ UNCHANGED <<env, pc, secretKey, routes, stderr, stdout>>

\* ------------------------------------------------------------------------
\* GET /api/verify-payment/:reference (lines 94-123)
\* ------------------------------------------------------------------------

\* The route matches a non-empty path segment.
PathReferences == {Str("abc123")}

VerifyPayment(reference) ==
  /\ Serving("GET /api/verify-payment/:reference")
  /\ Await(Exchange("verify", [reference |-> reference]),
           Call("GET", "https://api.paystack.co/transaction/verify/" \o Template(reference),
                Undefined))
  /\ UNCHANGED <<env, pc, secretKey, routes, stderr, stdout>>

VerifySettles(x, outcome) ==
  LET y == Settle(x, outcome)
      e == Thrown(outcome)
  IN  /\ Answer(x, IF e = Undefined
                   THEN Respond(y, 200,
                          Json(<< <<"status", Bool(TRUE)>>,
                                  <<"data", Get(Get(outcome.response, "data"), "data")>> >>))
                   ELSE Failure(y, e, "Verify payment error:", "Failed to verify payment"))
      /\ UNCHANGED <<env, pc, secretKey, routes, stderr, stdout>>

\* ------------------------------------------------------------------------
\* GET /api/transactions (lines 126-156)
\* ------------------------------------------------------------------------

\* req.query: no parameters, or both.
ListQueries ==
  {[page |-> Undefined, perPage |-> Undefined], [page |-> Str("2"), perPage |-> Str("50")]}

ListTransactions(page, perPage) ==
  /\ Serving("GET /api/transactions")
  /\ Await(Exchange("list", [page |-> page, perPage |-> perPage]),
           Call("GET",
                "https://api.paystack.co/transaction?page=" \o Template(Default(page, Num(1)))
                  \o "&perPage=" \o Template(Default(perPage, Num(10))),
                Undefined))
  /\ UNCHANGED <<env, pc, secretKey, routes, stderr, stdout>>

ListSettles(x, outcome) ==
  LET y == Settle(x, outcome)
      e == Thrown(outcome)
  IN  /\ Answer(x, IF e = Undefined
                   THEN Respond(y, 200,
                          Json(<< <<"status", Bool(TRUE)>>,
                                  <<"data", Get(Get(outcome.response, "data"), "data")>>,
                                  <<"meta", Get(Get(outcome.response, "data"), "meta")>> >>))
                   ELSE Failure(y, e, "Get transactions error:",
                                "Failed to fetch transactions"))
      /\ UNCHANGED <<env, pc, secretKey, routes, stderr, stdout>>

\* ------------------------------------------------------------------------
\* GET /payment-callback, GET /api/health, GET / (lines 189-202)
\* ------------------------------------------------------------------------

QueryReferences == {Undefined, Str(""), Str("abc123")}

QueryTrxrefs == {Undefined, Str("trx789")}

\* A faulty variant of RedirectTarget that prefers trxref.
RedirectTargetTrxrefFirst(reference, trxref) ==
  "/?reference=" \o Template(Or(trxref, reference)) \o "&status=success"

\* Line 191: the Location of the redirect.
RedirectTarget(reference, trxref) ==
  "/?reference=" \o Template(Or(reference, trxref)) \o "&status=success"

PaymentCallback(reference, trxref) ==
  /\ Serving("GET /payment-callback")
  /\ last' = Respond(Exchange("callback", [reference |-> reference, trxref |-> trxref]),
                     302, Str(RedirectTarget(reference, trxref)))
  /\ UNCHANGED <<env, pc, secretKey, routes, stderr, inflight, stdout>>

Health(now) ==
  /\ Serving("GET /api/health")
  /\ last' = Respond(Exchange("health", Undefined), 200,
                     Json(<< <<"status", Str("OK")>>, <<"timestamp", Str(now.iso)>> >>))
  /\ UNCHANGED <<env, pc, secretKey, routes, stderr, inflight, stdout>>

ServeFrontend ==
  /\ Serving("GET /")
  /\ last' = Respond(Exchange("frontend", Undefined), 200, Str("/public/index.html"))
  /\ UNCHANGED <<env, pc, secretKey, routes, stderr, inflight, stdout>>

GatewayNext ==
  \/ Startup
  \/ \E r \in InitializeRequests : InitializePayment(r)
  \/ \E x \in Awaiting("initialize"), o \in Outcomes : InitializeSettles(x, o)
  \/ \E reference \in PathReferences : VerifyPayment(reference)
  \/ \E x \in Awaiting("verify"), o \in Outcomes : VerifySettles(x, o)
  \/ \E q \in ListQueries : ListTransactions(q.page, q.perPage)
  \/ \E x \in Awaiting("list"), o \in Outcomes : ListSettles(x, o)
  \/ \E reference \in QueryReferences, trxref \in QueryTrxrefs :
       PaymentCallback(reference, trxref)
  \/ \E now \in Clock : Health(now)
  \/ ServeFrontend

\* The server as its clients' requests drive it.
Spec == Init /\ [][GatewayNext]_vars

\* ------------------------------------------------------------------------
\* Properties
\* ------------------------------------------------------------------------

\* The response of an answered exchange.
Response(x) == x.responses[1]

ProxyKinds == {"initialize", "verify", "list"}

\* The proxy exchanges there are: those awaiting the processor and, when it
\* is one, the exchange answered last.
ProxyExchanges ==
  BagToSet(inflight) \cup (IF last.kind \in ProxyKinds THEN {last} ELSE {})

\* C1: a webhook delivery whose signature header differs from the digest the
\* handler computes, a delivery without the header included, is answered
\* 400 "Invalid signature" and reaches none of the three handlers.
WebhookMismatchRejected ==
  (/\ last.kind = "webhook"
   /\ last.req.signature # HmacSha256Hex(env, JsonStringify(JsonParse(last.req.raw))))
  => /\ last.responses = <<[status |-> 400, body |-> Str("Invalid signature")]>>
     /\ last.reached = <<>>

WebhookMismatchWitness ==
  /\ last.kind = "webhook"
  /\ last.req.signature = Undefined
  /\ last.responses = <<[status |-> 400, body |-> Str("Invalid signature")]>>

\* C2: a webhook delivery is accepted with 200 exactly when its signature
\* header is the HMAC-SHA256 of the raw body bytes as received, and is
\* rejected with 400 otherwise.
WebhookVerifiesRawBytes ==
  last.kind = "webhook"
  => /\ Response(last).status \in {200, 400}
     /\ Response(last).status = 200
          <=> last.req.signature = HmacSha256Hex(env, last.req.raw)

\* C3: no event is dispatched to a handler more than once: a delivery that
\* repeats an accepted one writes no second line.
NoEventDispatchedTwice ==
  \A i, j \in 1..Len(stdout) : i # j => stdout[i] # stdout[j]

\* The inputs C4 speaks of: missing, empty, or the number zero.
MissingInput(r) ==
  \/ r.email \in {Undefined, Str("")}
  \/ r.amount \in {Undefined, Str(""), Dec(0, 0)}

ExactKobo(amount) ==
  CASE amount.t = "literal" -> amount.n * Pow10(2 - amount.k)
    [] amount = Str("0")    -> 0
    [] amount = Str("250")  -> 25000

\* C5: the amount forwarded to the processor is the request's amount
\* multiplied by 100, once: never the amount itself, never amount*100*100.
ForwardsAmountTimes100 ==
  \A x \in ProxyExchanges :
    x.kind = "initialize"
    => \A i \in 1..Len(x.calls) :
         /\ x.calls[i].data.amount = Num(ExactKobo(x.req.amount))
         /\ ExactKobo(x.req.amount) # 0
            => /\ x.calls[i].data.amount # BodyValue(x.req.amount)
               /\ x.calls[i].data.amount # Num(100 * ExactKobo(x.req.amount))

\* The processor's call failed: it was rejected (no response, or a non-2xx
\* one), or it resolved with a body that is not the processor's envelope.
UpstreamFailed(outcome) ==
  \/ outcome.t = "rejected"
  \/ /\ outcome.t = "resolved"
     /\ Get(Get(outcome.response, "data"), "data") = Undefined

\* The processor's own message of a failure, when it has one.
ProcessorMessage(outcome) ==
  IF outcome = Rejected(Http401) THEN Str("Invalid key") ELSE Undefined

\* C6: every failure of the outbound call (network error, non-2xx, malformed
\* response) is answered with exactly one 500 {status:false, message, error},
\* error being the processor's message when there is one.
UpstreamFailureAnswered500 ==
  (last.kind \in ProxyKinds /\ last.reply # None /\ UpstreamFailed(last.reply))
  => /\ Len(last.responses) = 1
     /\ Response(last).status = 500
     /\ Get(Response(last).body, "status") = Bool(FALSE)
     /\ Get(Response(last).body, "message") # Undefined
     /\ Get(Response(last).body, "error") # Undefined
     /\ ProcessorMessage(last.reply) # Undefined
        => Get(Response(last).body, "error") = ProcessorMessage(last.reply)

\* C7: a proxy request issues at most one call to the processor, and is
\* answered once, only after that call has settled.
SingleAwaitedCall ==
  /\ \A x \in BagToSet(inflight) :
       Len(x.calls) = 1 /\ x.settled = 0 /\ x.responses = <<>>
  /\ last.kind \in ProxyKinds
     => /\ Len(last.calls) <= 1
        /\ Len(last.responses) = 1
        /\ last.settled = Len(last.calls)

SingleAwaitedCallWitness ==
  /\ last.kind = "list"
  /\ last.reply = Rejected(NetworkError)
  /\ Len(last.calls) = 1
  /\ last.settled = 1
  /\ Response(last).status = 500
  /\ inflight # EmptyBag

\* The handler the event of a body belongs to.
ExpectedHandler(raw) ==
  CASE raw \in {SuccessBody, SpacedBody}  -> "charge.success"
    [] raw = FailedBody                   -> "charge.failed"
    [] raw \in {UnknownBody, NoEventBody} -> "default"

NoPartialStartup ==
  env \in {Undefined, Str("")}
  => /\ pc \in {"start", "configured", "exited"}
     /\ routes = {}
     /\ last = None
     /\ inflight = EmptyBag
     /\ stdout = <<>>
     /\ pc = "exited" => stderr = <<"PAYSTACK_SECRET_KEY is required">>

NoPartialStartupWitness ==
  /\ env = Str("")
  /\ pc = "exited"
  /\ stderr = <<"PAYSTACK_SECRET_KEY is required">>
  /\ routes = {}

\* The reference a callback request supplies: its reference parameter when
\* it has one, otherwise its trxref.
SuppliedReference(q) ==
  IF q.reference \notin {Undefined, Str("")} THEN q.reference ELSE q.trxref

\* C10: a payment-callback request is answered with a redirect to the root
\* path carrying the supplied reference and then status=success (the text
\* "undefined" when none is supplied), and no call to the processor is made.
CallbackRedirects ==
  last.kind = "callback"
  => /\ last.responses =
          <<[status |-> 302,
             body |-> Str("/?reference="
                          \o (IF SuppliedReference(last.req) = Undefined THEN "undefined"
                              ELSE SuppliedReference(last.req).s)
                          \o "&status=success")]>>
     /\ last.calls = <<>>
     /\ last.settled = 0

CallbackRedirectsWitness ==
  /\ last.kind = "callback"
  /\ last.req.reference = Str("")
  /\ last.req.trxref = Str("trx789")
  /\ Response(last).body = Str("/?reference=trx789&status=success")

====
